---- MODULE Spec2Model ----
(***************************************************************************)
(* HA Fleet integration (custom_components/ha_fleet): the command poller   *)
(* and executor and the metrics reporter of __init__.py, the local log     *)
(* reader and the metrics collector of metrics_collector.py.               *)
(*                                                                         *)
(* Coroutines are modelled at their await points: a poll task is at        *)
(* "fetching" while its GET is in flight, at "executing" while             *)
(* _execute_command is awaited and at "reporting" while the result POST is *)
(* awaited.  What the host, the sidecar and the collector answer is drawn  *)
(* from small sets.  The config entry is followed through setup, unload    *)
(* and reload (async_setup_entry, async_unload_entry), and the config flow *)
(* of config_flow.py through its user step and its options step.           *)
(***************************************************************************)
EXTENDS Integers, Sequences, FiniteSets, TLC

VARIABLES
    supervisor_token,  \* os.getenv("SUPERVISOR_TOKEN") is set
    core_uuid,         \* hass.data.get("core.uuid") is set
    pending,           \* the collector's queue of commands for this instance
    poll,              \* poll[t]: the coroutine started by the t-th poller tick
    logreq,            \* log reader: the input and the result of one call
    collect,           \* collect_all: the position, the inputs and the mapping
    hass_state,        \* hass.state.value
    report,            \* report[t]: the coroutine started by the t-th reporter tick
    entry,             \* the config entry: its data, what setup stored, the subscriptions
    flow               \* the config flow: the step, the input and the answer

vars == <<supervisor_token, core_uuid, pending, poll, logreq, collect,
          hass_state, report, entry, flow>>

----------------------------------------------------------------------------
(* Bounds of the model *)

MaxBatch == 2      \* commands in the collector's queue
MaxTicks == 2      \* scheduler ticks in one run; tick tasks may overlap
MaxLines == 3      \* lines of the log file
MaxProbeFaults == 1  \* probes of one collection that answer other than quietly
MaxHostBatch == 1  \* commands in the queue when both loops run
MaxUnloads == 2    \* unloads of the config entry in one run
MaxUpdates == 1    \* changes of the config entry's data in one run
MaxSubmits == 2    \* submissions of the form in one config flow

----------------------------------------------------------------------------
(* Values *)

\* Python's None for an optional value and the text of a raised exception.
None == "None"
ExcText == "boom"
\* str(asyncio.TimeoutError()) is the empty string.
TimeoutText == ""

\* f-string messages: the sequence of the literal parts and the interpolated
\* values.
Msg(prefix, text) == <<prefix, text>>

\* dict.get(key, default) on a mapping modelled as a function on its keys.
DictGet(d, key, default) == IF key \in DOMAIN d THEN d[key] ELSE default

EmptyDict == [k \in {} |-> None]

\* Python slicing seq[start:] (0-based start, negative counts from the end).
PySliceFrom(seq, start) ==
    LET n == Len(seq)
        s == IF start < 0
                THEN (IF n + start < 0 THEN 0 ELSE n + start)
                ELSE (IF start > n THEN n ELSE start)
    IN  SubSeq(seq, s + 1, n)

\* all_lines[-lines:] if len(all_lines) > lines else all_lines
TailLines(all_lines, lines) ==
    IF Len(all_lines) > lines THEN PySliceFrom(all_lines, 0 - lines) ELSE all_lines

----------------------------------------------------------------------------
(* What the environment answers during one command *)

\* An HTTP exchange: a success status, another status, the client timeout,
\* or any other exception (connection refused, bad JSON, ...).
HttpOutcomes == {"ok", "status", "timeout", "error"}

possible_paths ==
    << "/config/home-assistant.log",
       "<config_dir>/home-assistant.log",
       "/var/log/homeassistant/home-assistant.log",
       "~/.homeassistant/home-assistant.log" >>

LogPaths == {possible_paths[i] : i \in DOMAIN possible_paths}

\* The log file holds the lines 1..n, oldest first.
FileLines(n) == [i \in 1..n |-> i]

EnvDefault ==
    [ backup |-> "ok", info |-> "ok", logs_api |-> "ok", update |-> "ok",
      service |-> "ok", states |-> "ok", api_lines |-> 1,
      exists |-> {}, file_lines |-> 0, read |-> "ok" ]

FileEnvs ==
    { [EnvDefault EXCEPT !.exists = e, !.file_lines = n, !.read = r] :
        e \in SUBSET LogPaths, n \in 0..MaxLines, r \in {"ok", "error"} }

\* For a polled command: every set of existing paths, a file of MaxLines lines.
PollFileEnvs == { e \in FileEnvs : e.file_lines = MaxLines }

\* The answers that matter to a command of the given type.
Envs(command_type) ==
    CASE command_type = "trigger_backup" ->
            { [EnvDefault EXCEPT !.backup = o] : o \in HttpOutcomes }
      [] command_type = "get_backup_info" ->
            { [EnvDefault EXCEPT !.info = o] : o \in HttpOutcomes }
      [] command_type = "get_logs" ->
            { [EnvDefault EXCEPT !.logs_api = o, !.api_lines = MaxLines] :
                o \in HttpOutcomes }
            \cup PollFileEnvs
      [] command_type = "restart_homeassistant" ->
            { [EnvDefault EXCEPT !.service = o] : o \in {"ok", "error"} }
      [] command_type = "list_automations" ->
            { [EnvDefault EXCEPT !.states = o] : o \in {"ok", "error"} }
      [] command_type = "update_core" ->
            { [EnvDefault EXCEPT !.backup = b, !.update = u] :
                b \in HttpOutcomes, u \in HttpOutcomes }
      [] OTHER -> {EnvDefault}

----------------------------------------------------------------------------
(* Command handlers.  Each yields what the coroutine did: whether it raised *)
(* to its caller, the result it returned, the requests it made to the      *)
(* sidecar, the host and the file system, in order, and the texts of the   *)
(* exceptions raised while it ran.                                         *)

Call(op, target) == [op |-> op, target |-> target]

\* A request that was made, with the answer it got.
Did(req, outcome) == [req |-> req, outcome |-> outcome]

\* The requests among the calls made.
Requests(calls) == {calls[i].req : i \in DOMAIN calls}

NoResult == [success |-> FALSE, message |-> Msg("<no result>", "")]

Returns(result, calls, excs) ==
    [raises |-> FALSE, result |-> result, exc |-> None,
     calls |-> calls, excs |-> excs]

Raises(text, calls) ==
    [raises |-> TRUE, result |-> NoResult, exc |-> text,
     calls |-> calls, excs |-> <<text>>]

Failure(prefix, text) == [success |-> FALSE, message |-> Msg(prefix, text)]

BackupCall == Call("POST", "http://supervisor/backups/new/full")
InfoCall   == Call("GET", "http://supervisor/backups/{slug}/info")
LogsCall   == Call("GET", "http://supervisor/core/logs")
UpdateCall == Call("POST", "http://supervisor/core/update")
BackupsListCall == Call("GET", "http://supervisor/backups")
RestartCall == Call("service", "homeassistant.restart")
StatesCall == Call("states", "automation")
OpenCall(path) == Call("open", path)

SidecarCalls == {BackupCall, InfoCall, LogsCall, UpdateCall, BackupsListCall}

\* _execute_backup without the test of the token.
_execute_backup_unchecked(params, env) ==
    LET backup_name == DictGet(params, "name", "Fleet backup {now}")
    IN CASE env.backup = "ok" ->
               Returns([success |-> TRUE,
                        message |-> Msg("Backup created: ", backup_name),
                        slug |-> "slug", name |-> backup_name],
                       <<Did(BackupCall, env.backup)>>, <<>>)
         [] OTHER ->
               Returns(Failure("Backup error: ", ExcText),
                       <<Did(BackupCall, env.backup)>>, <<ExcText>>)

_execute_backup(params, env) ==
    IF ~supervisor_token
    THEN Returns(Failure("Supervisor not available (not running on HA OS/Supervised)", ""),
                 <<>>, <<>>)
    ELSE LET backup_name == DictGet(params, "name", "Fleet backup {now}")
         IN CASE env.backup = "ok" ->
                    Returns([success |-> TRUE,
                             message |-> Msg("Backup created: ", backup_name),
                             slug |-> "slug", name |-> backup_name],
                            <<Did(BackupCall, env.backup)>>, <<>>)
              [] env.backup = "status" ->
                    Returns(Failure("Supervisor API error: ", "500"),
                            <<Did(BackupCall, env.backup)>>, <<>>)
              [] env.backup = "timeout" ->
                    Returns(Failure("Backup creation timed out", ""),
                            <<Did(BackupCall, env.backup)>>, <<TimeoutText>>)
              [] OTHER ->
                    Returns(Failure("Backup error: ", ExcText),
                            <<Did(BackupCall, env.backup)>>, <<ExcText>>)

_get_backup_info(params, env) ==
    IF ~supervisor_token
    THEN Returns(Failure("Supervisor not available", ""), <<>>, <<>>)
    ELSE IF DictGet(params, "slug", None) = None
    THEN Returns(Failure("Missing backup slug parameter", ""), <<>>, <<>>)
    ELSE CASE env.info = "ok" ->
                Returns([success |-> TRUE,
                         message |-> Msg("Backup info retrieved", ""),
                         data |-> "backup_data"],
                        <<Did(InfoCall, env.info)>>, <<>>)
           [] env.info = "status" ->
                Returns(Failure("Backup not found: ", "404"), <<Did(InfoCall, env.info)>>, <<>>)
           [] env.info = "timeout" ->
                Returns(Failure("Error: ", TimeoutText), <<Did(InfoCall, env.info)>>, <<TimeoutText>>)
           [] OTHER ->
                Returns(Failure("Error: ", ExcText), <<Did(InfoCall, env.info)>>, <<ExcText>>)

DefaultLines == 1000

LogsResult(all_lines, recent_logs) ==
    [success |-> TRUE,
     message |-> Msg("Retrieved {n} log lines", ""),
     logs |-> recent_logs,
     total_lines |-> Len(all_lines),
     returned_lines |-> Len(recent_logs)]

\* A search of the candidates without the break: the last path that exists.
LastExisting(exists) ==
    IF \E i \in DOMAIN possible_paths : possible_paths[i] \in exists
    THEN possible_paths[CHOOSE i \in DOMAIN possible_paths :
                            /\ possible_paths[i] \in exists
                            /\ \A j \in (i + 1)..Len(possible_paths) :
                                  possible_paths[j] \notin exists]
    ELSE None

\* The first candidate path that exists, or None.
FirstExisting(exists) ==
    IF \E i \in DOMAIN possible_paths : possible_paths[i] \in exists
    THEN possible_paths[CHOOSE i \in DOMAIN possible_paths :
                            /\ possible_paths[i] \in exists
                            /\ \A j \in 1..(i - 1) : possible_paths[j] \notin exists]
    ELSE None

_get_logs_from_file(params, env) ==
    LET lines == DictGet(params, "lines", DefaultLines)
        log_file == FirstExisting(env.exists)
    IN  IF log_file = None
        THEN Returns(Failure("Log file not found. Use Supervisor API on HA OS/Supervised.", ""),
                     <<>>, <<>>)
        ELSE IF env.read = "ok"
        THEN LET all_lines == FileLines(env.file_lines)
             IN  Returns(LogsResult(all_lines, TailLines(all_lines, lines)),
                         <<Did(OpenCall(log_file), env.read)>>, <<>>)
        ELSE Returns(Failure("Error reading logs: ", ExcText),
                     <<Did(OpenCall(log_file), env.read)>>, <<ExcText>>)

_get_logs(params, env) ==
    IF ~supervisor_token
    THEN _get_logs_from_file(params, env)
    ELSE LET lines == DictGet(params, "lines", DefaultLines)
         IN CASE env.logs_api = "ok" ->
                    LET all_lines == FileLines(env.api_lines)
                    IN  Returns(LogsResult(all_lines, TailLines(all_lines, lines)),
                                <<Did(LogsCall, env.logs_api)>>, <<>>)
              [] env.logs_api = "status" ->
                    Returns(Failure("Supervisor API returned ", "500"),
                            <<Did(LogsCall, env.logs_api)>>, <<>>)
              [] env.logs_api = "timeout" ->
                    Returns(Failure("Error: ", TimeoutText), <<Did(LogsCall, env.logs_api)>>, <<TimeoutText>>)
              [] OTHER ->
                    Returns(Failure("Error: ", ExcText), <<Did(LogsCall, env.logs_api)>>, <<ExcText>>)

_list_automations(params, env) ==
    IF env.states = "ok"
    THEN Returns([success |-> TRUE,
                  message |-> Msg("Found {n} automations", ""),
                  automations |-> <<>>, count |-> 0],
                 <<Did(StatesCall, env.states)>>, <<>>)
    ELSE Returns(Failure("Error: ", ExcText), <<Did(StatesCall, env.states)>>, <<ExcText>>)

\* true and false as the collector's JSON gives them.
PyTrue == "True"
PyFalse == "False"

\* if v: the truth value Python gives a parameter.
Truthy(v) == v \notin {PyFalse, None, ""}

\* _execute_update that goes on to the update although the backup failed.
_execute_update_ignoring_backup(params, env) ==
    IF ~supervisor_token
    THEN Returns(Failure("Supervisor not available (not running on HA OS/Supervised)", ""),
                 <<>>, <<>>)
    ELSE LET backup_before == DictGet(params, "backup_before", PyTrue)
             backup == IF Truthy(backup_before)
                          THEN _execute_backup([name |-> "Pre-update backup {now}"], env)
                          ELSE Returns(NoResult, <<>>, <<>>)
         IN  Returns([success |-> env.update = "ok",
                      message |-> Msg("Update initiated to ", "latest")],
                     backup.calls \o <<Did(UpdateCall, env.update)>>, backup.excs)

_execute_update(params, env) ==
    IF ~supervisor_token
    THEN Returns(Failure("Supervisor not available (not running on HA OS/Supervised)", ""),
                 <<>>, <<>>)
    ELSE LET target_version == DictGet(params, "target_version", None)
             backup_before == DictGet(params, "backup_before", PyTrue)
             backup == IF Truthy(backup_before)
                          THEN _execute_backup([name |-> "Pre-update backup {now}"], env)
                          ELSE Returns(NoResult, <<>>, <<>>)
         IN  IF Truthy(backup_before) /\ ~backup.result.success
             THEN Returns([success |-> FALSE,
                           message |-> <<"Backup failed: ">> \o backup.result.message],
                          backup.calls, backup.excs)
             ELSE CASE env.update = "ok" ->
                        Returns([success |-> TRUE,
                                 message |-> Msg("Update initiated to ",
                                                 IF target_version = None
                                                    THEN "latest" ELSE target_version),
                                 target_version |-> target_version,
                                 backup_created |-> backup_before],
                                backup.calls \o <<Did(UpdateCall, env.update)>>, backup.excs)
                    [] env.update = "status" ->
                        Returns(Failure("Supervisor API error: ", "500"),
                                backup.calls \o <<Did(UpdateCall, env.update)>>, backup.excs)
                    [] env.update = "timeout" ->
                        Returns(Failure("Update initiation timed out", ""),
                                backup.calls \o <<Did(UpdateCall, env.update)>>,
                                backup.excs \o <<TimeoutText>>)
                    [] OTHER ->
                        Returns(Failure("Update error: ", ExcText),
                                backup.calls \o <<Did(UpdateCall, env.update)>>,
                                backup.excs \o <<ExcText>>)

\* await hass.services.async_call("homeassistant", "restart")
RestartHost(env) ==
    IF env.service = "ok"
    THEN Returns([success |-> TRUE,
                  message |-> Msg("Home Assistant restarting...", "")],
                 <<Did(RestartCall, env.service)>>, <<>>)
    ELSE Raises(ExcText, <<Did(RestartCall, env.service)>>)

KnownCommandTypes ==
    {"trigger_backup", "get_backup_info", "get_logs", "restart_homeassistant",
     "list_automations", "update_core"}

\* What one call of _execute_command did: the handler it dispatched to, what
\* the handler did, the result returned and whether an exception left it.
Executed(handler, h, result, propagated) ==
    [handler |-> handler, result |-> result, calls |-> h.calls,
     excs |-> h.excs, propagated |-> propagated]

\* A chain whose last branch is a handler instead of the failure result.
DispatchDefaultHandler(command_type) ==
    IF command_type \in KnownCommandTypes THEN command_type ELSE "list_automations"

\* The if/elif chain of _execute_command.
Dispatch(command_type) ==
    IF command_type \in KnownCommandTypes THEN command_type ELSE "none"

RunHandler(handler, command_type, params, env) ==
    CASE handler = "trigger_backup" -> _execute_backup(params, env)
      [] handler = "get_backup_info" -> _get_backup_info(params, env)
      [] handler = "get_logs" -> _get_logs(params, env)
      [] handler = "restart_homeassistant" -> RestartHost(env)
      [] handler = "list_automations" -> _list_automations(params, env)
      [] handler = "update_core" -> _execute_update(params, env)
      [] OTHER -> Returns(Failure("Unknown command type: ", command_type), <<>>, <<>>)

\* _execute_command without its try/except: the exception leaves it.
_execute_command_uncaught(command_type, params, env) ==
    LET handler == Dispatch(command_type)
        h == RunHandler(handler, command_type, params, env)
    IN  Executed(handler, h, h.result, h.raises)

_execute_command(command_type, params, env) ==
    LET handler == Dispatch(command_type)
        h == RunHandler(handler, command_type, params, env)
    IN  IF h.raises
        THEN Executed(handler, h, Failure("Execution error: ", h.exc), FALSE)
        ELSE Executed(handler, h, h.result, FALSE)

----------------------------------------------------------------------------
(* The collector's queue *)

\* Commands the collector can queue: the command_type and, when the entry
\* carries a "params" key, its value.  Entries are mappings and params is a
\* mapping, as the collector's interface states them.
WithParams(command_type, params) == <<command_type, <<params>>>>
NoParams(command_type) == <<command_type, <<>>>>

CommandPool ==
    { NoParams("trigger_backup"),
      WithParams("get_backup_info", [slug |-> "s1"]),
      WithParams("get_backup_info", EmptyDict),
      WithParams("get_logs", [lines |-> 1]),
      NoParams("restart_homeassistant"),
      NoParams("list_automations"),
      WithParams("update_core", [backup_before |-> PyTrue]),
      WithParams("update_core", [backup_before |-> PyFalse, target_version |-> "2024.1.0"]),
      WithParams("update_core", [backup_before |-> None]),
      WithParams("update_core", EmptyDict),
      NoParams("self_destruct") }

\* The entry of the "commands" list for a queued command.
Command(id, item) ==
    IF item[2] = <<>>
    THEN [id |-> id, command_type |-> item[1]]
    ELSE [id |-> id, command_type |-> item[1], params |-> item[2][1]]

\* The queues of at most MaxBatch commands; the collector numbers them.
Batches ==
    UNION { { [i \in 1..n |-> Command(i, items[i])] : items \in [1..n -> CommandPool] }
            : n \in 0..MaxBatch }

RemoveId(queue, id) == SelectSeq(queue, LAMBDA c : c.id # id)

----------------------------------------------------------------------------
(* _poll_and_execute_commands *)

Ticks == 1..MaxTicks

NoExec == [handler |-> "none", result |-> NoResult, calls |-> <<>>,
           excs |-> <<>>, propagated |-> FALSE]

NoPayload == [command_id |-> 0, status |-> "", result |-> <<>>, error |-> <<>>]

\* aiohttp.ClientSession(...): a new session, named after the coroutine that
\* opens it.
Session(owner, t) == <<owner, t>>

NoSession == <<>>

\* One request sent to the collector, with the session that carries it and
\* the URL and API key it is made with.
Http(call, session, config) ==
    [call |-> call, session |-> session, config |-> config]

\* A URL: its text up to the trailing slashes, and the number of those.
Url(base, slashes) == [base |-> base, slashes |-> slashes]

\* str.rstrip("/")
rstrip(u) == [u EXCEPT !.slashes = 0]

\* What the user entered when the integration was added.
DefaultConfig ==
    [cloud_url |-> Url("https://a.example", 0), api_key |-> "key-a",
     instance_name |-> "Home"]

\* The URL and the key a coroutine makes its requests with, read from the
\* mapping that async_setup_entry stored.
RequestConfig(stored) ==
    [cloud_url |-> rstrip(stored.cloud_url), api_key |-> stored.api_key]

NoConfig == <<>>

\* The config entry after async_setup_entry has returned: the mapping is
\* stored and both interval subscriptions are active.
LoadedEntry(data) ==
    [ state |-> "loaded", data |-> <<data>>, stored |-> <<data>>,
      unsub |-> 1, unsub_commands |-> 1, locals |-> <<>>,
      reload |-> FALSE, unloads |-> 0, updates |-> 0 ]

\* No flow is open.
FlowIdle ==
    [ step |-> "none", pc |-> "closed", input |-> <<>>, errors |-> "",
      result |-> "", health |-> <<>>, submits |-> 0 ]

IdlePoll ==
    [ pc |-> "idle", exit |-> "", fetched |-> FALSE, commands |-> <<>>, k |-> 0,
      exec |-> NoExec, payload |-> NoPayload,
      executed |-> <<>>, reported |-> <<>>, inflight |-> {},
      report_failed |-> FALSE, session |-> NoSession, http |-> <<>>,
      state |-> "", config |-> NoConfig ]

\* A reporter coroutine before its tick.
IdleReport ==
    [ pc |-> "idle", exit |-> "", state |-> "", probes |-> <<>>, calls |-> <<>>,
      payload |-> <<>>, posts |-> 0, session |-> NoSession, http |-> <<>>,
      config |-> NoConfig ]

\* Ticks the scheduler has delivered so far, of both loops.
TicksStarted ==
    Cardinality({t \in Ticks : poll[t].pc # "idle"})
    + Cardinality({t \in Ticks : report[t].pc # "idle"})

\* for cmd in commands: the entry the k-th iteration works on.
VisitReversed(commands, k) == Len(commands) - k + 1

Visit(commands, k) == k

Current(r) == r.commands[Visit(r.commands, r.k)]

\* A loop that runs an entry again when the report of its result failed.
BeginNextRepeatFailed(r) ==
    IF r.k >= 1 /\ r.report_failed /\ Len(r.executed) = r.k
    THEN [r EXCEPT !.pc = "executing", !.exec = NoExec,
                   !.executed = Append(@, Visit(r.commands, r.k))]
    ELSE IF r.k < Len(r.commands)
         THEN [r EXCEPT !.pc = "executing", !.k = r.k + 1, !.exec = NoExec,
                        !.executed = Append(@, Visit(r.commands, r.k + 1))]
         ELSE [r EXCEPT !.pc = "done", !.exit = "completed", !.exec = NoExec]

\* A loop that passes over the commands whose id some poll has executed
\* before.
RECURSIVE BeginNextSkipSeen(_)
BeginNextSkipSeen(r) ==
    IF r.k < Len(r.commands)
    THEN IF r.commands[Visit(r.commands, r.k + 1)].id \in
               UNION { { poll[u].commands[poll[u].executed[i]].id :
                           i \in DOMAIN poll[u].executed } : u \in Ticks }
         THEN BeginNextSkipSeen([r EXCEPT !.k = r.k + 1])
         ELSE [r EXCEPT !.pc = "executing", !.k = r.k + 1, !.exec = NoExec,
                        !.executed = Append(@, Visit(r.commands, r.k + 1))]
    ELSE [r EXCEPT !.pc = "done", !.exit = "completed", !.exec = NoExec]

\* The top of the for loop: the next entry's _execute_command starts, or the
\* list is exhausted and the coroutine returns.
BeginNext(r) ==
    IF r.k < Len(r.commands)
    THEN [r EXCEPT !.pc = "executing", !.k = r.k + 1, !.exec = NoExec,
                   !.executed = Append(@, Visit(r.commands, r.k + 1))]
    ELSE [r EXCEPT !.pc = "done", !.exit = "completed", !.exec = NoExec]

\* A loop that runs its body before it looks at the length of the list.
AfterFetchBodyFirst(r, commands) ==
    [r EXCEPT !.fetched = TRUE, !.commands = commands,
              !.pc = "executing", !.k = 1, !.executed = <<1>>]

\* commands = data.get("commands", []); if not commands: return
AfterFetch(r, commands) ==
    IF commands = <<>>
    THEN [r EXCEPT !.fetched = TRUE, !.commands = commands,
                   !.pc = "done", !.exit = "empty"]
    ELSE BeginNext([r EXCEPT !.fetched = TRUE, !.commands = commands])

\* A report that carries the result object also when the command failed.
ReportPayloadAlwaysResult(command_id, result) ==
    [ command_id |-> command_id,
      status |-> IF result.success THEN "success" ELSE "failed",
      result |-> <<result>>,
      error |-> IF ~result.success THEN <<result.message>> ELSE <<>> ]

\* The body of the request built by _report_command_result.
ReportPayload(command_id, result) ==
    [ command_id |-> command_id,
      status |-> IF result.success THEN "success" ELSE "failed",
      result |-> IF result.success THEN <<result>> ELSE <<>>,
      error |-> IF ~result.success THEN <<result.message>> ELSE <<>> ]

\* A result report that opens a session for itself.
ReportSessionOwn(r) == Session("report", 10 * r.session[2] + r.k)

\* The session argument of _report_command_result: the poll's session.
ReportSession(r) == r.session

\* A result report that looks the URL and the key up when it is sent.
ReportConfigLookup(r) ==
    IF entry.stored = <<>> THEN NoConfig ELSE <<RequestConfig(entry.stored[1])>>

\* The cloud_url and api_key arguments of _report_command_result: the
\* locals of the poll.
ReportConfig(r) == r.config

\* session.post(...) of the result: the request is issued.
IssueReport(r) ==
    LET pos == Visit(r.commands, r.k)
    IN  [r EXCEPT !.payload = ReportPayload(r.commands[pos].id, r.exec.result),
                  !.reported = Append(@, pos),
                  !.inflight = @ \cup {pos},
                  !.http = Append(@, Http("report", ReportSession(r), ReportConfig(r)))]

\* A report started as a task of its own: the loop does not wait for it.
AfterExecuteDetached(r) == BeginNext(IssueReport(r))

\* A loop that reports the commands that succeeded and no others.
AfterExecuteReportSuccessOnly(r) ==
    IF r.exec.propagated
    THEN [r EXCEPT !.pc = "done", !.exit = "loop_error"]
    ELSE IF r.exec.result.success
         THEN [IssueReport(r) EXCEPT !.pc = "reporting"]
         ELSE BeginNext(r)

\* await _report_command_result(...): the loop waits for the answer.
AfterExecute(r) ==
    IF r.exec.propagated
    THEN [r EXCEPT !.pc = "done", !.exit = "loop_error"]
    ELSE [IssueReport(r) EXCEPT !.pc = "reporting"]

\* A failed report that ends the loop.
AfterReportStopOnFailure(r, pos, outcome) ==
    LET s == [r EXCEPT !.inflight = @ \ {pos},
                       !.report_failed = @ \/ outcome # "ok"]
    IN  IF r.pc = "reporting" /\ Visit(r.commands, r.k) = pos
        THEN IF outcome = "ok" THEN BeginNext(s)
             ELSE [s EXCEPT !.pc = "done", !.exit = "loop_error", !.exec = NoExec]
        ELSE s

\* A report that is sent a second time when the first attempt failed.
AfterReportRetry(r, pos, outcome) ==
    LET s == [r EXCEPT !.inflight = @ \ {pos},
                       !.report_failed = @ \/ outcome # "ok"]
        sent == Len(SelectSeq(r.reported, LAMBDA x : x = pos))
    IN  IF outcome # "ok" /\ sent < 2
        THEN [r EXCEPT !.report_failed = TRUE,
                       !.reported = Append(@, pos),
                       !.http = Append(@, Http("report", ReportSession(r), ReportConfig(r)))]
        ELSE IF r.pc = "reporting" /\ Visit(r.commands, r.k) = pos
             THEN BeginNext(s)
             ELSE s

\* _report_command_result logs the outcome, whatever it is, and returns.
AfterReport(r, pos, outcome) ==
    LET s == [r EXCEPT !.inflight = @ \ {pos},
                       !.report_failed = @ \/ outcome # "ok"]
    IN  IF r.pc = "reporting" /\ Visit(r.commands, r.k) = pos
        THEN BeginNext(s)
        ELSE s

\* The scheduler fires poll_commands: the coroutine runs up to its GET.
\* A poller that leaves the queue alone until the host is running.
poll_commands_gated(r, t, e, uuid, state) ==
    IF state # "RUNNING"
    THEN [r EXCEPT !.state = state, !.pc = "done", !.exit = "skipped"]
    ELSE IF e.stored = <<>>
    THEN [r EXCEPT !.state = state, !.pc = "done", !.exit = "caught"]
    ELSE IF ~uuid
    THEN [r EXCEPT !.state = state, !.pc = "done", !.exit = "no_uuid",
                   !.config = <<RequestConfig(e.stored[1])>>]
    ELSE [r EXCEPT !.state = state, !.pc = "fetching",
                   !.config = <<RequestConfig(e.stored[1])>>,
                   !.session = Session("poll", t),
                   !.http = <<Http("fetch", Session("poll", t),
                                   <<RequestConfig(e.stored[1])>>)>>]

\* The poller's callback up to its first await: the stored mapping is looked
\* up (a missing one raises, which the callback catches), the URL and the
\* key go to locals, the uuid is tested and the GET is sent.  The state of
\* the host is not looked at; the record keeps it.
poll_commands(r, t, e, uuid, state) ==
    IF e.stored = <<>>
    THEN [r EXCEPT !.state = state, !.pc = "done", !.exit = "caught"]
    ELSE IF ~uuid
    THEN [r EXCEPT !.state = state, !.pc = "done", !.exit = "no_uuid",
                   !.config = <<RequestConfig(e.stored[1])>>]
    ELSE [r EXCEPT !.state = state, !.pc = "fetching",
                   !.config = <<RequestConfig(e.stored[1])>>,
                   !.session = Session("poll", t),
                   !.http = <<Http("fetch", Session("poll", t),
                                   <<RequestConfig(e.stored[1])>>)>>]

PollTick(t) ==
    /\ poll[t].pc = "idle"
    /\ t > 1 => poll[t - 1].pc # "idle"
    /\ TicksStarted < MaxTicks
    /\ entry.unsub_commands > 0
    /\ poll' = [poll EXCEPT ![t] =
                  poll_commands(@, t, entry, core_uuid, hass_state)]
    /\ UNCHANGED <<supervisor_token, core_uuid, pending, logreq, collect, hass_state, report, entry, flow>>

\* The answer to GET /api/v1/commands.
FetchResponse(t) ==
    /\ poll[t].pc = "fetching"
    /\ \E outcome \in {"ok", "no_commands_key", "status", "timeout", "error"} :
          poll' = [poll EXCEPT ![t] =
                     CASE outcome = "ok" -> AfterFetch(@, pending)
                       [] outcome = "no_commands_key" -> AfterFetch(@, <<>>)
                       [] OTHER -> [@ EXCEPT !.pc = "done", !.exit = outcome]]
    /\ UNCHANGED <<supervisor_token, core_uuid, pending, logreq, collect, hass_state, report, entry, flow>>

\* _execute_command returns; its result is logged and the report is sent.
ExecuteCommand(t) ==
    /\ poll[t].pc = "executing"
    /\ LET cmd == Current(poll[t])
           command_type == DictGet(cmd, "command_type", None)
           params == DictGet(cmd, "params", EmptyDict)
       IN  \E env \in Envs(command_type) :
              poll' = [poll EXCEPT ![t] =
                         AfterExecute([@ EXCEPT !.exec =
                             _execute_command(command_type, params, env)])]
    /\ UNCHANGED <<supervisor_token, core_uuid, pending, logreq, collect, hass_state, report, entry, flow>>

\* The answer to a result POST (or its failure).  The collector drops a
\* command from its queue when it has taken the result.
ReportResponse(t) ==
    /\ \E pos \in poll[t].inflight :
       \E outcome \in {"ok", "status", "timeout", "error"} :
          /\ poll' = [poll EXCEPT ![t] = AfterReport(@, pos, outcome)]
          /\ pending' = IF outcome = "ok"
                           THEN RemoveId(pending, poll[t].commands[pos].id)
                           ELSE pending
    /\ UNCHANGED <<supervisor_token, core_uuid, logreq, collect, hass_state, report, entry, flow>>

PollerInit ==
    /\ supervisor_token \in BOOLEAN
    /\ core_uuid \in BOOLEAN
    /\ pending \in Batches
    /\ poll = [t \in Ticks |-> IdlePoll]

PollerNext == \E t \in Ticks :
    PollTick(t) \/ FetchResponse(t) \/ ExecuteCommand(t) \/ ReportResponse(t)

----------------------------------------------------------------------------
(* The get-logs handler on its own: every requested count against every    *)
(* log file.                                                               *)

LogIdle == [pc |-> "off"]
CollectIdle == [pc |-> "off"]

LineCounts == 0..(MaxLines + 1)

LogParams == {EmptyDict} \cup { [lines |-> n] : n \in LineCounts }

LogEnvs ==
    { [f EXCEPT !.logs_api = o, !.api_lines = n] :
        f \in FileEnvs, o \in HttpOutcomes, n \in {1, MaxLines} }

LogInit ==
    /\ supervisor_token \in BOOLEAN
    /\ core_uuid = TRUE
    /\ pending = <<>>
    /\ poll = [t \in Ticks |-> IdlePoll]
    /\ \E params \in LogParams, env \in LogEnvs :
          logreq = [pc |-> "called", params |-> params, env |-> env]
    /\ collect = CollectIdle
    /\ hass_state = "RUNNING"
    /\ report = [t \in Ticks |-> IdleReport]
    /\ entry = LoadedEntry(DefaultConfig)
    /\ flow = FlowIdle

GetLogs ==
    /\ logreq.pc = "called"
    /\ logreq' = [pc |-> "returned", params |-> logreq.params, env |-> logreq.env,
                  out |-> _get_logs(logreq.params, logreq.env)]
    /\ UNCHANGED <<supervisor_token, core_uuid, pending, poll, collect, hass_state, report, entry, flow>>

LogNext == GetLogs

SpecLogs == LogInit /\ [][LogNext]_vars

----------------------------------------------------------------------------
(* MetricsCollector.collect_all and its probes *)

LowEntityThreshold == 1000

\* metrics.update(d)
Update(metrics, d) == d @@ metrics

KV(keys, v) == [k \in keys |-> v]

ProbeReturns(metrics, warnings, calls) ==
    [raises |-> FALSE, metrics |-> metrics, warnings |-> warnings, calls |-> calls]

ProbeRaises(warnings, calls) ==
    [raises |-> TRUE, metrics |-> EmptyDict, warnings |-> warnings, calls |-> calls]

CoreKeys == {"core_version", "config_dir"}
SystemKeys == {"system_platform", "system_machine", "system_processor",
               "cpu_model", "python_version"}

_collect_core ==
    { ProbeReturns(KV(CoreKeys \cup SystemKeys, "value"), {}, <<>>),
      ProbeReturns(KV(CoreKeys \cup {"system_platform"}, "value"),
                   {<<"Failed to collect system information", "core">>}, <<>>),
      ProbeRaises({}, <<>>) }

CpuKeys == {"cpu_usage_avg"}
RamKeys == {"ram_usage_percent", "ram_used_mb", "ram_total_mb"}
DiskKeys == {"disk_usage_percent", "disk_used_gb", "disk_total_gb"}
BootKeys == {"boot_time_seconds"}

_collect_performance ==
    { ProbeReturns(KV(CpuKeys \cup RamKeys \cup DiskKeys \cup BootKeys, "value"), {}, <<>>),
      ProbeReturns(KV(CpuKeys \cup RamKeys, "value"),
                   {<<"Error collecting performance metrics", "performance">>}, <<>>),
      ProbeReturns(EmptyDict, {<<"psutil not available", "performance">>}, <<>>) }

\* hass.states.async_all(): the entities that are not and that are
\* unavailable or unknown.
EntityCounts ==
    { [available |-> a, unavailable |-> u] :
        a \in {0, 1, LowEntityThreshold - 1, LowEntityThreshold},
        u \in {0, 1} }

LowWarning == <<"Entity count is suspiciously low", "entities">>

EntityMetrics(total, unavailable) ==
    [ total_entities |-> total,
      unavailable_entities |-> unavailable,
      unavailable_entities_percent |->
          IF total > 0 THEN (unavailable * 100) \div total ELSE 0,
      automation_count |-> 0,
      integration_count |-> 0 ]

DetailsOf(unavailable) ==
    IF unavailable > 0
    THEN [k \in {"_unavailable_entity_details"} |-> [i \in 1..unavailable |-> "detail"]]
    ELSE EmptyDict

\* An entity probe that withholds a count it distrusts.
_collect_entities_withhold_low(states) ==
    LET total == states.available + states.unavailable
        warnings == IF total < LowEntityThreshold THEN {LowWarning} ELSE {}
    IN  { ProbeReturns(IF total < LowEntityThreshold
                          THEN EmptyDict
                          ELSE DetailsOf(states.unavailable)
                               @@ EntityMetrics(total, states.unavailable),
                       warnings, <<>>),
          ProbeRaises(warnings, <<>>) }

_collect_entities(states) ==
    LET total == states.available + states.unavailable
        warnings == IF total < LowEntityThreshold THEN {LowWarning} ELSE {}
    IN  { ProbeReturns(DetailsOf(states.unavailable)
                       @@ EntityMetrics(total, states.unavailable),
                       warnings, <<>>),
          ProbeRaises(warnings, <<>>) }

SecurityDefaults ==
    [ ssl_enabled |-> "False", ssl_cert_expiry_days |-> None,
      ssl_issuer |-> None, ssl_self_signed |-> None ]

HandshakeFailed == <<"Failed to check SSL certificate", "security">>

\* A security probe without the try block around the handshake.
_collect_security_unguarded ==
    { ProbeReturns(SecurityDefaults, {}, <<>>),
      ProbeReturns([ ssl_enabled |-> "True", ssl_cert_expiry_days |-> "days",
                     ssl_issuer |-> "issuer", ssl_self_signed |-> "False" ], {}, <<>>),
      ProbeRaises({HandshakeFailed}, <<>>),
      ProbeRaises({}, <<>>) }

_collect_security ==
    { \* no external URL, or one that is not https
      ProbeReturns(SecurityDefaults, {}, <<>>),
      \* the handshake succeeded
      ProbeReturns([ ssl_enabled |-> "True", ssl_cert_expiry_days |-> "days",
                     ssl_issuer |-> "issuer", ssl_self_signed |-> "False" ], {}, <<>>),
      \* the handshake failed
      ProbeReturns([SecurityDefaults EXCEPT !.ssl_enabled = "True"],
                   {HandshakeFailed}, <<>>),
      \* the URL does not parse (port)
      ProbeRaises({}, <<>>) }

DatabaseDefaults ==
    [ db_size_mb |-> None, recorder_size_mb |-> None,
      db_growth_rate |-> None, last_purge_date |-> None ]

_collect_database ==
    { ProbeReturns(DatabaseDefaults, {}, <<>>),
      ProbeReturns([DatabaseDefaults EXCEPT !.db_size_mb = "size",
                                            !.recorder_size_mb = "size"], {}, <<>>),
      ProbeReturns([DatabaseDefaults EXCEPT !.db_size_mb = "size",
                                            !.recorder_size_mb = "size",
                                            !.last_purge_date = "date"], {}, <<>>),
      ProbeReturns([DatabaseDefaults EXCEPT !.last_purge_date = "date"],
                   {<<"Failed to get database size", "database">>}, <<>>),
      ProbeRaises({}, <<>>) }

BackupDefaults ==
    [ backup_count |-> 0, last_backup_date |-> None,
      last_backup_age_days |-> None, last_backup_age_hours |-> None,
      total_backup_size_mb |-> "0", oldest_backup_date |-> None ]

_collect_backups ==
    IF ~supervisor_token
    THEN { ProbeReturns(BackupDefaults, {}, <<>>) }
    ELSE { \* no backups
           ProbeReturns(BackupDefaults, {}, <<Did(BackupsListCall, "answered")>>),
           \* a status other than 200
           ProbeReturns(BackupDefaults,
                        {<<"Supervisor backups endpoint returned a status", "backups">>},
                        <<Did(BackupsListCall, "status")>>),
           \* a client error
           ProbeReturns(BackupDefaults,
                        {<<"Failed to fetch backups from Supervisor", "backups">>},
                        <<Did(BackupsListCall, "error")>>),
           \* one backup listed
           ProbeReturns([ backup_count |-> 1, last_backup_date |-> "date",
                          last_backup_age_days |-> "age", last_backup_age_hours |-> "age",
                          total_backup_size_mb |-> "size", oldest_backup_date |-> "date" ],
                        {}, <<Did(BackupsListCall, "answered")>>),
           \* an entry without a usable date
           ProbeReturns([BackupDefaults EXCEPT !.backup_count = 1,
                                               !.total_backup_size_mb = "size"],
                        {}, <<Did(BackupsListCall, "answered")>>),
           \* an exception after the count was stored
           ProbeReturns([BackupDefaults EXCEPT !.backup_count = 1],
                        {<<"Unexpected error collecting backup metrics", "backups">>},
                        <<Did(BackupsListCall, "answered")>>) }

\* The probes in the order collect_all runs them.
ProbeOrder == <<"core", "performance", "entities", "security", "database", "backups">>

Probes == {ProbeOrder[i] : i \in DOMAIN ProbeOrder}

ProbeOutcomes(probe, states) ==
    CASE probe = "core" -> _collect_core
      [] probe = "performance" -> _collect_performance
      [] probe = "entities" -> _collect_entities(states)
      [] probe = "security" -> _collect_security
      [] probe = "database" -> _collect_database
      [] OTHER -> _collect_backups

\* One try block for all the probes: the first exception ends the collection.
CollectStepAbort(c, probe, out) ==
    IF out.raises
    THEN [c EXCEPT !.pc = Len(ProbeOrder) + 1,
                   !.metrics = EmptyDict,
                   !.warnings = @ \cup out.warnings,
                   !.raised = @ \cup {probe}]
    ELSE [c EXCEPT !.pc = @ + 1,
                   !.metrics = Update(@, out.metrics),
                   !.warnings = @ \cup out.warnings,
                   !.calls = @ \o out.calls,
                   !.completed = @ \cup {probe},
                   !.produced = [@ EXCEPT ![probe] = DOMAIN out.metrics]]

\* try: metrics.update(probe()) except Exception: log a warning
CollectStep(c, probe, out) ==
    IF out.raises
    THEN [c EXCEPT !.pc = @ + 1,
                   !.warnings = @ \cup out.warnings
                                  \cup {<<"Failed to collect metrics", probe>>},
                   !.calls = @ \o out.calls,
                   !.raised = @ \cup {probe}]
    ELSE [c EXCEPT !.pc = @ + 1,
                   !.metrics = Update(@, out.metrics),
                   !.warnings = @ \cup out.warnings,
                   !.calls = @ \o out.calls,
                   !.completed = @ \cup {probe},
                   !.produced = [@ EXCEPT ![probe] = DOMAIN out.metrics]]

\* collect_all is called: metrics = {}
CollectCalled(states) ==
    [ pc |-> 1, states |-> states, metrics |-> EmptyDict, warnings |-> {},
      calls |-> <<>>, raised |-> {}, completed |-> {},
      produced |-> [p \in Probes |-> {}] ]

CollectReturned(c) == c.pc = Len(ProbeOrder) + 1

CollectInit ==
    /\ supervisor_token \in BOOLEAN
    /\ core_uuid = TRUE
    /\ pending = <<>>
    /\ poll = [t \in Ticks |-> IdlePoll]
    /\ logreq = LogIdle
    /\ \E states \in EntityCounts : collect = CollectCalled(states)
    /\ hass_state = "RUNNING"
    /\ report = [t \in Ticks |-> IdleReport]
    /\ entry = LoadedEntry(DefaultConfig)
    /\ flow = FlowIdle

RunProbe ==
    /\ collect.pc \in DOMAIN ProbeOrder
    /\ LET probe == ProbeOrder[collect.pc]
       IN  \E out \in ProbeOutcomes(probe, collect.states) :
              collect' = CollectStep(collect, probe, out)
    /\ UNCHANGED <<supervisor_token, core_uuid, pending, poll, logreq, hass_state, report, entry, flow>>

CollectNext == RunProbe

SpecCollect == CollectInit /\ [][CollectNext]_vars

----------------------------------------------------------------------------
(* send_metrics and _send_metrics_to_cloud *)

\* hass.state.value along the life of the host.
HostStates == <<"STARTING", "RUNNING", "STOPPING">>

\* A probe that returns and logs nothing but the low-count warning.
Quiet(probe, states) ==
    CHOOSE o \in ProbeOutcomes(probe, states) :
        ~o.raises /\ o.warnings \subseteq {LowWarning}

NominalStates == [available |-> LowEntityThreshold, unavailable |-> 0]

\* What the host answers to the probes of one collection.
QuietEnv ==
    [ states |-> NominalStates,
      outs |-> [p \in Probes |-> Quiet(p, NominalStates)] ]

EntityAnswers ==
    UNION { { [states |-> st, out |-> o] : o \in _collect_entities(st) }
            : st \in EntityCounts }

\* The answers of E with one more probe free to answer as it can.
OneMore(E) ==
    E \cup UNION { { [e EXCEPT !.outs[p] = o] :
                       e \in E, o \in ProbeOutcomes(p, NominalStates) }
                   : p \in Probes \ {"entities"} }
      \cup { [e EXCEPT !.states = a.states, !.outs["entities"] = a.out] :
               e \in E, a \in EntityAnswers }

RECURSIVE HostEnvs(_)
HostEnvs(faults) ==
    IF faults = 0 THEN {QuietEnv} ELSE OneMore(HostEnvs(faults - 1))

\* collect_all from its first probe to its return.
RECURSIVE RunProbes(_, _)
RunProbes(c, env) ==
    IF CollectReturned(c) THEN c
    ELSE RunProbes(CollectStep(c, ProbeOrder[c.pc], env.outs[ProbeOrder[c.pc]]), env)

collect_all(env) == RunProbes(CollectCalled(env.states), env)

\* The body of the metrics request; the timestamp is the time of the tick.
MetricsPayload(t, metrics) ==
    [ instance_id |-> "uuid", timestamp |-> t, metrics |-> metrics ]

\* A reporter that does not look at the state of the host.
send_metrics_ungated(r, e, state) ==
    IF e.stored = <<>>
    THEN [r EXCEPT !.state = state, !.pc = "done", !.exit = "caught"]
    ELSE [r EXCEPT !.state = state, !.pc = "collecting",
                   !.config = <<RequestConfig(e.stored[1])>>]

\* if hass.state.value != "RUNNING": return
send_metrics(r, e, state) ==
    IF state # "RUNNING"
    THEN [r EXCEPT !.state = state, !.pc = "done", !.exit = "skipped"]
    ELSE IF e.stored = <<>>
    THEN [r EXCEPT !.state = state, !.pc = "done", !.exit = "caught"]
    ELSE [r EXCEPT !.state = state, !.pc = "collecting",
                   !.config = <<RequestConfig(e.stored[1])>>]

\* session.post(url, json=payload): the request is issued.
IssueMetrics(r, t, payload) ==
    [r EXCEPT !.pc = "posting", !.payload = <<payload>>, !.posts = @ + 1,
              !.session = Session("metrics", t),
              !.http = Append(@, Http("metrics", Session("metrics", t), r.config))]

\* A reporter that sends the snapshot without looking for the uuid.
AfterCollectAnyUuid(r, t, c, uuid) ==
    IssueMetrics([r EXCEPT !.probes = SubSeq(ProbeOrder, 1, c.pc - 1),
                           !.calls = c.calls],
                 t, MetricsPayload(t, c.metrics))

\* collect_all has returned: the uuid is looked up, the payload is built and
\* the request is sent.
AfterCollect(r, t, c, uuid) ==
    LET s == [r EXCEPT !.probes = SubSeq(ProbeOrder, 1, c.pc - 1), !.calls = c.calls]
    IN  IF ~uuid
        THEN [s EXCEPT !.pc = "done", !.exit = "no_uuid"]
        ELSE IssueMetrics(s, t, MetricsPayload(t, c.metrics))

\* What a metrics request can end in: 200, 200 with a body that is no JSON
\* object, 401, another status, a timeout, a client error, another exception.
MetricsOutcomes ==
    {"ok", "bad_body", "unauthorized", "status", "timeout", "client_error", "error"}

\* A reporter that sends the request again when it timed out.
AfterMetricsResponseRetry(r, outcome) ==
    IF outcome = "timeout" /\ r.posts < 2
    THEN [r EXCEPT !.posts = @ + 1, !.http = Append(@, Http("metrics", r.session, r.config))]
    ELSE [r EXCEPT !.pc = "done", !.exit = outcome, !.payload = <<>>]

\* A reporter whose except clauses let an unforeseen exception through.
AfterMetricsResponseEscapes(r, outcome) ==
    [r EXCEPT !.pc = "done", !.payload = <<>>,
              !.exit = IF outcome = "error" THEN "escaped" ELSE outcome]

\* Every branch and every except clause logs and falls off the end.
AfterMetricsResponse(r, outcome) ==
    [r EXCEPT !.pc = "done", !.exit = outcome, !.payload = <<>>]

\* The scheduler fires send_metrics.
ReportTick(t) ==
    /\ report[t].pc = "idle"
    /\ t > 1 => report[t - 1].pc # "idle"
    /\ TicksStarted < MaxTicks
    /\ entry.unsub > 0
    /\ report' = [report EXCEPT ![t] = send_metrics(@, entry, hass_state)]
    /\ UNCHANGED <<supervisor_token, core_uuid, pending, poll, logreq, collect, hass_state, entry, flow>>

\* await collector.collect_all() returns.
CollectDone(t) ==
    /\ report[t].pc = "collecting"
    /\ \E env \in HostEnvs(MaxProbeFaults) :
          report' = [report EXCEPT ![t] = AfterCollect(@, t, collect_all(env), core_uuid)]
    /\ UNCHANGED <<supervisor_token, core_uuid, pending, poll, logreq, collect, hass_state, entry, flow>>

\* The answer to POST /api/v1/metrics (or its failure).
MetricsResponse(t) ==
    /\ report[t].pc = "posting"
    /\ \E outcome \in MetricsOutcomes :
          report' = [report EXCEPT ![t] = AfterMetricsResponse(@, outcome)]
    /\ UNCHANGED <<supervisor_token, core_uuid, pending, poll, logreq, collect, hass_state, entry, flow>>

\* The host goes on to the next state of its life.
HostStateChange ==
    /\ \E i \in 1..(Len(HostStates) - 1) :
          /\ hass_state = HostStates[i]
          /\ hass_state' = HostStates[i + 1]
    /\ UNCHANGED <<supervisor_token, core_uuid, pending, poll, logreq, collect, report, entry, flow>>

ReporterNext == \E t \in Ticks :
    ReportTick(t) \/ CollectDone(t) \/ MetricsResponse(t)

----------------------------------------------------------------------------
(* Both loops as the host runs them *)

HostInit ==
    /\ supervisor_token \in BOOLEAN
    /\ core_uuid \in BOOLEAN
    /\ pending \in {b \in Batches : Len(b) <= MaxHostBatch}
    /\ poll = [t \in Ticks |-> IdlePoll]
    /\ logreq = LogIdle
    /\ collect = CollectIdle
    /\ hass_state \in {"STARTING", "RUNNING"}
    /\ report = [t \in Ticks |-> IdleReport]
    /\ entry = LoadedEntry(DefaultConfig)
    /\ flow = FlowIdle

HostNext == PollerNext \/ ReporterNext \/ HostStateChange

SpecHost == HostInit /\ [][HostNext]_vars

----------------------------------------------------------------------------
(* The config entry: setup, unload and reload *)

\* What the user changes the entry to.
OtherConfig ==
    [cloud_url |-> Url("https://b.example", 0), api_key |-> "key-b",
     instance_name |-> "Home"]

Configs == {DefaultConfig, OtherConfig}

\* hass.config_entries.async_update_entry(entry, data=...): the data of the
\* entry is replaced and, when it changed, the update listener that setup
\* registered (async_reload_entry) is scheduled.
async_update_entry(e, data) ==
    IF e.data = <<data>>
    THEN e
    ELSE [e EXCEPT !.data = <<data>>, !.reload = TRUE, !.updates = @ + 1]

\* An unload that leaves the poller's subscription in place.
async_unload_entry_keeps_poller(e) ==
    [e EXCEPT !.state = "unloading",
              !.unsub = IF @ > 0 THEN @ - 1 ELSE 0,
              !.reload = FALSE,
              !.unloads = @ + 1]

\* async_unload_entry up to its await: the two subscriptions kept in the
\* stored mapping are cancelled.
async_unload_entry(e) ==
    [e EXCEPT !.state = "unloading",
              !.unsub = IF @ > 0 THEN @ - 1 ELSE 0,
              !.unsub_commands = IF @ > 0 THEN @ - 1 ELSE 0,
              !.reload = FALSE,
              !.unloads = @ + 1]

\* What async_unload_platforms answers for the empty list of platforms.
PlatformUnloadAnswers == {TRUE}

\* async_unload_entry after its await: the mapping is removed when the
\* platforms were unloaded.
AfterUnloadPlatforms(e, unload_ok) ==
    IF unload_ok
    THEN [e EXCEPT !.state = "not_loaded", !.stored = <<>>]
    ELSE [e EXCEPT !.state = "failed_unload"]

\* async_setup_entry up to its first await: the data of the entry goes to
\* locals and the connection test is sent.
BeginSetup(e) == [e EXCEPT !.state = "setup_test", !.locals = e.data]

\* The connection test is over, whatever it gave: the mapping is stored and
\* the platforms are forwarded.
StoreConfig(e) == [e EXCEPT !.state = "setup_platforms", !.stored = e.locals]

\* The two interval subscriptions are made and kept in the stored mapping.
Subscribe(e) ==
    [e EXCEPT !.state = "loaded", !.locals = <<>>,
              !.unsub = @ + 1, !.unsub_commands = @ + 1]

\* The options of the entry are changed.
UpdateEntry ==
    /\ entry.data # <<>>
    /\ entry.updates < MaxUpdates
    /\ \E data \in Configs : entry' = async_update_entry(entry, data)
    /\ entry' # entry
    /\ UNCHANGED <<supervisor_token, core_uuid, pending, poll, logreq, collect,
                   hass_state, report, flow>>

\* The host unloads the entry: for a reload, or because it is disabled.
UnloadEntry ==
    /\ entry.state = "loaded"
    /\ entry.unloads < MaxUnloads
    /\ entry' = async_unload_entry(entry)
    /\ UNCHANGED <<supervisor_token, core_uuid, pending, poll, logreq, collect,
                   hass_state, report, flow>>

UnloadPlatformsDone ==
    /\ entry.state = "unloading"
    /\ \E unload_ok \in PlatformUnloadAnswers :
          entry' = AfterUnloadPlatforms(entry, unload_ok)
    /\ UNCHANGED <<supervisor_token, core_uuid, pending, poll, logreq, collect,
                   hass_state, report, flow>>

\* The host sets the entry up: as the second half of a reload, or because
\* it is enabled again.
SetupEntry ==
    /\ entry.state = "not_loaded"
    /\ entry.data # <<>>
    /\ entry' = BeginSetup(entry)
    /\ UNCHANGED <<supervisor_token, core_uuid, pending, poll, logreq, collect,
                   hass_state, report, flow>>

ConnectionTestDone ==
    /\ entry.state = "setup_test"
    /\ \E outcome \in HttpOutcomes : entry' = StoreConfig(entry)
    /\ UNCHANGED <<supervisor_token, core_uuid, pending, poll, logreq, collect,
                   hass_state, report, flow>>

ForwardSetupsDone ==
    /\ entry.state = "setup_platforms"
    /\ entry' = Subscribe(entry)
    /\ UNCHANGED <<supervisor_token, core_uuid, pending, poll, logreq, collect,
                   hass_state, report, flow>>

EntryNext ==
    \/ UpdateEntry
    \/ UnloadEntry
    \/ UnloadPlatformsDone
    \/ SetupEntry
    \/ ConnectionTestDone
    \/ ForwardSetupsDone

\* The commands queued while the entry is reconfigured.
ReloadTypes == {"restart_homeassistant", "list_automations"}

ReloadInit ==
    /\ supervisor_token = TRUE
    /\ core_uuid = TRUE
    /\ pending \in {b \in Batches :
                       /\ Len(b) <= MaxHostBatch
                       /\ \A i \in DOMAIN b : b[i].command_type \in ReloadTypes}
    /\ poll = [t \in Ticks |-> IdlePoll]
    /\ logreq = LogIdle
    /\ collect = CollectIdle
    /\ hass_state = "RUNNING"
    /\ report = [t \in Ticks |-> IdleReport]
    /\ entry = LoadedEntry(DefaultConfig)
    /\ flow = FlowIdle

ReloadNext == PollerNext \/ ReporterNext \/ EntryNext

SpecReload == ReloadInit /\ [][ReloadNext]_vars

----------------------------------------------------------------------------
(* The config flow: the user step and the options step *)

\* What GET {url}/health can give: 200 with status "healthy", 200 with
\* another body, another status, a timeout, a client error, another
\* exception.
HealthOutcomes ==
    {"healthy", "unhealthy", "status", "timeout", "client_error", "error"}

\* What the user can enter in the form.
FlowInputs ==
    { [cloud_url |-> u, api_key |-> k, instance_name |-> n] :
        u \in {Url("https://a.example", 0), Url("https://b.example", 1)},
        k \in {"key-a", "key-b"},
        n \in {"Home", "Cabin"} }

\* A validation that is content with any answer of status 200.
validate_connection_any_200(outcome) == outcome \in {"healthy", "unhealthy"}

\* validate_connection: it returns (TRUE) when the answer is 200 with status
\* "healthy" and raises ValueError (FALSE) for everything else.
validate_connection(outcome) == outcome = "healthy"

\* No entry has been created yet.
NoEntry ==
    [ state |-> "not_loaded", data |-> <<>>, stored |-> <<>>,
      unsub |-> 0, unsub_commands |-> 0, locals |-> <<>>,
      reload |-> FALSE, unloads |-> 0, updates |-> 0 ]

\* The options step validates only when the URL or the key differs from the
\* entry's.
ConnectionChanged(e, input) ==
    \/ input.cloud_url # e.data[1].cloud_url
    \/ input.api_key # e.data[1].api_key

\* The flow shows the form again with an error.
ShowForm(f, error) == [f EXCEPT !.pc = "form", !.errors = error]

\* The flow ends with async_create_entry.
Finish(f) == [f EXCEPT !.pc = "closed", !.errors = "", !.result = "create_entry"]

\* The form is submitted.  The URL loses its trailing slashes.  The user
\* step, and the options step when the URL or the key changed, await
\* validate_connection; the options step with neither changed updates the
\* entry at once.
SubmitForm ==
    /\ flow.pc = "form"
    /\ flow.submits < MaxSubmits
    /\ \E input \in FlowInputs :
          LET data == [input EXCEPT !.cloud_url = rstrip(@)]
              f == [flow EXCEPT !.submits = @ + 1, !.input = <<data>>,
                                !.health = <<>>, !.errors = ""]
          IN  IF flow.step = "init" /\ ~ConnectionChanged(entry, data)
              THEN /\ entry' = async_update_entry(entry, data)
                   /\ flow' = Finish(f)
              ELSE /\ entry' = entry
                   /\ flow' = [f EXCEPT !.pc = "validating"]
    /\ UNCHANGED <<supervisor_token, core_uuid, pending, poll, logreq, collect,
                   hass_state, report>>

\* validate_connection has returned or raised.  ValueError gives the form
\* with cannot_connect.  After a validation the user step creates the entry,
\* unless one with this unique id exists: the abort raised then is caught
\* by `except Exception` and gives the form with unknown.  The options step
\* updates the entry.
ValidationDone ==
    /\ flow.pc = "validating"
    /\ \E outcome \in HealthOutcomes :
          LET data == flow.input[1]
              f == [flow EXCEPT !.health = <<[url |-> data.cloud_url,
                                              outcome |-> outcome]>>]
          IN  IF ~validate_connection(outcome)
              THEN /\ entry' = entry
                   /\ flow' = ShowForm(f, "cannot_connect")
              ELSE IF flow.step = "init"
              THEN /\ entry' = async_update_entry(entry, data)
                   /\ flow' = Finish(f)
              ELSE IF entry.data # <<>>
              THEN /\ entry' = entry
                   /\ flow' = ShowForm(f, "unknown")
              ELSE /\ entry' = [entry EXCEPT !.data = <<data>>]
                   /\ flow' = Finish(f)
    /\ UNCHANGED <<supervisor_token, core_uuid, pending, poll, logreq, collect,
                   hass_state, report>>

FlowInit ==
    /\ supervisor_token = TRUE
    /\ core_uuid = TRUE
    /\ pending = <<>>
    /\ poll = [t \in Ticks |-> IdlePoll]
    /\ logreq = LogIdle
    /\ collect = CollectIdle
    /\ hass_state = "RUNNING"
    /\ report = [t \in Ticks |-> IdleReport]
    /\ \E step \in {"user", "init"} :
          /\ entry \in IF step = "user"
                        THEN {NoEntry, LoadedEntry(DefaultConfig)}
                        ELSE {LoadedEntry(DefaultConfig)}
          /\ flow = [FlowIdle EXCEPT !.step = step, !.pc = "form", !.result = "form"]

FlowNext == SubmitForm \/ ValidationDone

SpecFlow == FlowInit /\ [][FlowNext]_vars

----------------------------------------------------------------------------
(* The poller as the host runs it *)

Init ==
    /\ PollerInit
    /\ logreq = LogIdle
    /\ collect = CollectIdle
    /\ hass_state = "RUNNING"
    /\ report = [t \in Ticks |-> IdleReport]
    /\ entry = LoadedEntry(DefaultConfig)
    /\ flow = FlowIdle

Next == PollerNext

Spec == Init /\ [][Next]_vars

\* The poller when every handler and every HTTP call it awaits comes back.
PollerProgress == \E t \in Ticks :
    FetchResponse(t) \/ ExecuteCommand(t) \/ ReportResponse(t)

\* One command type for each way a command can go: a handler that calls the
\* sidecar, a handler that calls a host service, and no handler at all.
LiveTypes == {"trigger_backup", "restart_homeassistant", "self_destruct"}

LiveInit ==
    /\ Init
    /\ \A i \in DOMAIN pending : pending[i].command_type \in LiveTypes

SpecLive == LiveInit /\ [][Next]_vars /\ WF_vars(PollerProgress)

----------------------------------------------------------------------------
(* Properties *)

Min(a, b) == IF a < b THEN a ELSE b

\* The message holds the text (every string holds the empty one).
Carries(message, text) ==
    text = "" \/ \E i \in DOMAIN message : message[i] = text

ParamsOf(cmd) == DictGet(cmd, "params", EmptyDict)

\* C1: within one poll batch the result reports are issued in the order of
\* the fetched list: the a-th report issued is the one for the a-th entry.
C1_ReportsInListOrder ==
    \A t \in Ticks :
        \A a \in DOMAIN poll[t].reported : poll[t].reported[a] = a

C1_Witness ==
    \E t \in Ticks :
        /\ Len(poll[t].commands) >= 2
        /\ poll[t].reported = <<1, 2>>

\* C2: the commands of one batch run strictly one at a time: while an entry
\* executes, no report of the batch is in flight and the reports of all the
\* entries before it have been issued and have finished; while a report is
\* awaited it is the only one in flight, and it is the current entry's.
C2_OneCommandAtATime ==
    \A t \in Ticks :
        /\ Cardinality(poll[t].inflight) <= 1
        /\ poll[t].pc = "executing" =>
              /\ poll[t].inflight = {}
              /\ poll[t].executed = [i \in 1..poll[t].k |-> i]
              /\ poll[t].reported = [i \in 1..(poll[t].k - 1) |-> i]
        /\ poll[t].pc = "reporting" =>
              /\ poll[t].inflight = {poll[t].k}
              /\ poll[t].executed = [i \in 1..poll[t].k |-> i]
              /\ poll[t].reported = [i \in 1..poll[t].k |-> i]
        /\ poll[t].pc \in {"idle", "fetching", "done"} => poll[t].inflight = {}

C2_Witness ==
    \E t \in Ticks :
        /\ poll[t].pc = "executing"
        /\ poll[t].k = 2
        /\ poll[t].reported = <<1>>
        /\ poll[t].inflight = {}

\* C3: a failed result report does not end the batch: once a report has
\* failed the coroutine goes on through the list, and when it has returned
\* every entry was executed and had its report issued.
C3_ReportFailureDoesNotBlock ==
    \A t \in Ticks :
        poll[t].report_failed =>
            /\ poll[t].pc \in {"executing", "reporting", "done"}
            /\ poll[t].pc = "done" =>
                  /\ poll[t].exit = "completed"
                  /\ Len(poll[t].executed) = Len(poll[t].commands)
                  /\ Len(poll[t].reported) = Len(poll[t].commands)

C3_Witness ==
    \E t \in Ticks :
        /\ poll[t].report_failed
        /\ Len(poll[t].commands) = 2
        /\ poll[t].pc = "done"
        /\ poll[t].executed = <<1, 2>>
        /\ poll[t].reported = <<1, 2>>

\* C4: an exception raised while a command executes ends in a result with
\* success = false whose message carries the exception text; it does not
\* leave _execute_command, so the poll loop goes on to report the failure,
\* and no entry is executed a second time.
C4_ExceptionBecomesFailure ==
    \A t \in Ticks :
        /\ poll[t].exit # "loop_error"
        /\ ~poll[t].exec.propagated
        /\ \A a, b \in DOMAIN poll[t].executed :
              a # b => poll[t].executed[a] # poll[t].executed[b]
        /\ (poll[t].pc = "reporting" /\ poll[t].exec.excs # <<>>) =>
              /\ ~poll[t].exec.result.success
              /\ \A i \in DOMAIN poll[t].exec.excs :
                    Carries(poll[t].exec.result.message, poll[t].exec.excs[i])
              /\ poll[t].payload.status = "failed"
              /\ poll[t].payload.error = <<poll[t].exec.result.message>>

C4_Witness ==
    \E t \in Ticks :
        /\ poll[t].pc = "reporting"
        /\ Current(poll[t]).command_type = "restart_homeassistant"
        /\ poll[t].exec.excs = <<ExcText>>
        /\ poll[t].exec.result = Failure("Execution error: ", ExcText)

\* C5: a command whose command_type is none of the six known types gets a
\* result with success = false, and no handler, host service or sidecar
\* request is used for it.
C5_UnknownTypeFails ==
    \A t \in Ticks :
        (poll[t].pc = "reporting"
         /\ Current(poll[t]).command_type \notin KnownCommandTypes) =>
            /\ ~poll[t].exec.result.success
            /\ poll[t].exec.handler = "none"
            /\ poll[t].exec.calls = <<>>

C5_Witness ==
    \E t \in Ticks :
        /\ poll[t].pc = "reporting"
        /\ Current(poll[t]).command_type = "self_destruct"
        /\ poll[t].payload.status = "failed"

\* C6: a poll whose response carries an empty command list executes no
\* command and issues no result report.
C6_EmptyListIsNoOp ==
    \A t \in Ticks :
        (poll[t].fetched /\ poll[t].commands = <<>>) =>
            /\ poll[t].pc = "done"
            /\ poll[t].executed = <<>>
            /\ poll[t].reported = <<>>
            /\ poll[t].inflight = {}

C6_Witness ==
    \E t \in Ticks :
        /\ poll[t].fetched
        /\ poll[t].commands = <<>>
        /\ poll[t].exit = "empty"

\* C7: for trigger-update with backup_before = true, when the pre-update
\* backup fails, POST /core/update is not called and the result is a failure.
C7_FailedBackupStopsUpdate ==
    \A t \in Ticks :
        (/\ poll[t].pc = "reporting"
         /\ Current(poll[t]).command_type = "update_core"
         /\ "backup_before" \in DOMAIN ParamsOf(Current(poll[t]))
         /\ ParamsOf(Current(poll[t])).backup_before = PyTrue
         /\ \E i \in DOMAIN poll[t].exec.calls :
               /\ poll[t].exec.calls[i].req = BackupCall
               /\ poll[t].exec.calls[i].outcome # "ok") =>
            /\ UpdateCall \notin Requests(poll[t].exec.calls)
            /\ ~poll[t].exec.result.success

C7_Witness ==
    \E t \in Ticks :
        /\ poll[t].pc = "reporting"
        /\ Current(poll[t]).command_type = "update_core"
        /\ "backup_before" \in DOMAIN ParamsOf(Current(poll[t]))
        /\ ParamsOf(Current(poll[t])).backup_before = PyTrue
        /\ poll[t].exec.calls = <<Did(BackupCall, "status")>>
        /\ ~poll[t].exec.result.success

\* C8: for every requested line count N and every log file of L lines,
\* get-logs read from the local file returns exactly the last min(N, L)
\* lines, with total_lines = L and returned_lines = min(N, L).
C8_LastLinesExactly ==
    (/\ logreq.pc = "returned"
     /\ ~supervisor_token
     /\ logreq.out.result.success) =>
        LET N == DictGet(logreq.params, "lines", DefaultLines)
            L == logreq.env.file_lines
            m == Min(N, L)
        IN  /\ logreq.out.result.logs = SubSeq(FileLines(L), L - m + 1, L)
            /\ logreq.out.result.total_lines = L
            /\ logreq.out.result.returned_lines = m

\* C9: whichever probes raise during collect_all, every probe is still run,
\* the mapping holds all the keys of every probe that returned, and
\* collect_all returns.
C9_RaisingProbeKeepsOthers ==
    /\ collect.pc \in 1..(Len(ProbeOrder) + 1)
    /\ {ProbeOrder[i] : i \in 1..(collect.pc - 1)} = collect.raised \cup collect.completed
    /\ \A p \in collect.completed : collect.produced[p] \subseteq DOMAIN collect.metrics

C9_Witness ==
    /\ CollectReturned(collect)
    /\ collect.raised = {"core", "entities", "security", "database"}
    /\ "cpu_usage_avg" \in DOMAIN collect.metrics
    /\ "backup_count" \in DOMAIN collect.metrics

\* C10: when the host has fewer than 1000 entities, the entity probe logs
\* the low-count warning, and the probe that returns reports total_entities
\* equal to the number of entities.
C10_LowCountWarnedAndReported ==
    LET total == collect.states.available + collect.states.unavailable
    IN  /\ ("entities" \in collect.raised \cup collect.completed
            /\ total < LowEntityThreshold) => LowWarning \in collect.warnings
        /\ "entities" \in collect.completed =>
              /\ "total_entities" \in DOMAIN collect.metrics
              /\ collect.metrics["total_entities"] = total

C10_Witness ==
    /\ "entities" \in collect.completed
    /\ collect.states.available + collect.states.unavailable = LowEntityThreshold - 1
    /\ LowWarning \in collect.warnings
    /\ collect.metrics["total_entities"] = LowEntityThreshold - 1

\* C11: one reporter tick issues at most one request to the metrics endpoint:
\* whatever the request ends in (200, 401, another status, a timeout, a
\* client error, another exception), the coroutine is over and has sent one
\* request.
C11_OnePostPerTick ==
    \A t \in Ticks :
        /\ report[t].posts <= 1
        /\ Len(report[t].http) = report[t].posts
        /\ report[t].pc = "posting" => report[t].posts = 1
        /\ report[t].exit \in MetricsOutcomes =>
              /\ report[t].pc = "done"
              /\ report[t].posts = 1

C11_Witness ==
    /\ report[1].pc = "done"
    /\ report[1].exit = "unauthorized"
    /\ report[1].posts = 1
    /\ report[2].pc = "done"
    /\ report[2].exit = "timeout"
    /\ report[2].posts = 1

\* C12: a reporter tick that fires while hass.state.value is not RUNNING
\* returns at once: it runs no probe, calls no sidecar, sends no request and
\* keeps no payload; a request that a tick does send carries the snapshot
\* built at that tick.
C12_NotRunningTickDoesNothing ==
    \A t \in Ticks :
        /\ (report[t].pc # "idle" /\ report[t].state # "RUNNING") =>
              /\ report[t].pc = "done"
              /\ report[t].exit = "skipped"
              /\ report[t].probes = <<>>
              /\ report[t].calls = <<>>
              /\ report[t].posts = 0
              /\ report[t].http = <<>>
              /\ report[t].payload = <<>>
        /\ report[t].pc = "posting" =>
              /\ report[t].state = "RUNNING"
              /\ report[t].payload[1].timestamp = t

C12_Witness ==
    /\ report[1].state = "STARTING"
    /\ report[1].exit = "skipped"
    /\ report[2].state = "RUNNING"
    /\ report[2].pc = "posting"
    /\ report[2].payload[1].timestamp = 2
    /\ report[2].posts = 1

\* A coroutine between its tick and its return.
Running(r) == r.pc \notin {"idle", "done"}

\* C13: no two coroutines of the same loop run at the same time: a poller
\* tick starts only when the previous poll has returned, and a reporter tick
\* only when the previous report has returned.
C13_TicksNeverOverlap ==
    \A t, u \in Ticks :
        t # u =>
            /\ ~(Running(poll[t]) /\ Running(poll[u]))
            /\ ~(Running(report[t]) /\ Running(report[u]))

\* Every request the coroutines have sent, with the coroutine that sent it.
AllHttp ==
    { <<"poll", t, i>> : t \in Ticks, i \in 1..MaxBatch + 1 } \cup
    { <<"report", t, i>> : t \in Ticks, i \in 1..MaxBatch + 1 }

HttpOf(x) == IF x[1] = "poll" THEN poll[x[2]].http ELSE report[x[2]].http

Sent(x) == x[3] \in DOMAIN HttpOf(x)

\* C14 as stated: every request to the collector has a session of its own,
\* no two requests share one.
C14_SessionPerRequest ==
    \A x, y \in AllHttp :
        (Sent(x) /\ Sent(y) /\ x # y) =>
            HttpOf(x)[x[3]].session # HttpOf(y)[y[3]].session

\* C14 amended: every coroutine opens one session of its own; a poll sends
\* its command fetch and all its result reports over the session it opened,
\* a reporter tick sends its metrics request over the session it opened, and
\* requests of two different coroutines never share a session.
C14_SessionPerCoroutine ==
    /\ \A t \in Ticks :
          /\ \A i \in DOMAIN poll[t].http :
                poll[t].http[i].session = Session("poll", t)
          /\ \A i \in DOMAIN report[t].http :
                report[t].http[i].session = Session("metrics", t)
    /\ \A x, y \in AllHttp :
          (Sent(x) /\ Sent(y) /\ <<x[1], x[2]>> # <<y[1], y[2]>>) =>
              HttpOf(x)[x[3]].session # HttpOf(y)[y[3]].session

C14_Witness ==
    /\ Len(poll[1].http) = 2
    /\ poll[1].http[1].call = "fetch"
    /\ poll[1].http[2].call = "report"
    /\ poll[1].http[1].session = poll[1].http[2].session
    /\ Len(report[1].http) = 1
    /\ report[1].http[1].session # poll[1].http[1].session

\* C15: a metrics snapshot or a command result is the body of at most one
\* request: a reporter coroutine sends at most one request, holds a payload
\* only while that request is in flight, and the payload is the one built at
\* its own tick; a poll sends one report per executed entry, never two for
\* the same entry, and the body of a report is the result this poll got for
\* the entry.
C15_NoResubmission ==
    \A t \in Ticks :
        /\ report[t].posts <= 1
        /\ report[t].pc # "posting" => report[t].payload = <<>>
        /\ report[t].pc = "posting" =>
              /\ Len(report[t].payload) = 1
              /\ report[t].payload[1].timestamp = t
        /\ \A a, b \in DOMAIN poll[t].reported :
              a # b => poll[t].reported[a] # poll[t].reported[b]
        /\ Len(poll[t].reported) <= Len(poll[t].executed)
        /\ Len(poll[t].http) <= 1 + Len(poll[t].executed)
        /\ poll[t].pc = "reporting" =>
              poll[t].payload = ReportPayload(Current(poll[t]).id, poll[t].exec.result)

C15_Witness ==
    /\ poll[1].pc = "done"
    /\ poll[1].report_failed
    /\ poll[1].reported = <<1>>
    /\ Len(poll[1].http) = 2
    /\ poll[2].pc = "reporting"
    /\ poll[2].commands = poll[1].commands
    /\ poll[2].reported = <<1>>

NormalPollExits ==
    {"no_uuid", "empty", "completed", "status", "timeout", "error", "loop_error",
     "caught"}

NormalReportExits == {"skipped", "no_uuid", "caught"} \cup MetricsOutcomes

\* C16: no failure escapes a scheduled tick: whatever the probes, the HTTP
\* calls and the command handlers do, a coroutine that is over has returned
\* in one of the ways its code foresees, and the next tick of its loop can
\* still be delivered.
C16_NoFailureEscapes ==
    \A t \in Ticks :
        /\ poll[t].pc = "done" => poll[t].exit \in NormalPollExits
        /\ report[t].pc = "done" => report[t].exit \in NormalReportExits
        /\ (t < MaxTicks /\ TicksStarted < MaxTicks) =>
              /\ (poll[t].pc = "done" /\ poll[t + 1].pc = "idle") =>
                    ENABLED PollTick(t + 1)
              /\ (report[t].pc = "done" /\ report[t + 1].pc = "idle") =>
                    ENABLED ReportTick(t + 1)

C16_Witness ==
    /\ report[1].pc = "done"
    /\ report[1].exit = "error"
    /\ report[2].pc = "posting"

\* C17: in every result report the status is "success" exactly when the
\* result has success = true, and exactly one of result and error is not
\* null: result is the result object when the command succeeded, error is
\* the failure message when it failed.
C17_StatusMatchesResult ==
    \A t \in Ticks :
        poll[t].pc = "reporting" =>
            LET p == poll[t].payload
                res == poll[t].exec.result
            IN  /\ p.status \in {"success", "failed"}
                /\ p.status = "success" <=> res.success
                /\ (p.result = <<>>) # (p.error = <<>>)
                /\ res.success => p.result = <<res>>
                /\ ~res.success => p.error = <<res.message>>

C17_Witness ==
    \E t \in Ticks :
        /\ poll[t].pc = "reporting"
        /\ Current(poll[t]).command_type = "trigger_backup"
        /\ poll[t].payload.status = "failed"
        /\ poll[t].payload.result = <<>>
        /\ poll[t].payload.error = <<poll[t].exec.result.message>>

\* C18: when every handler and every HTTP call comes back, every command of
\* a fetched batch is eventually executed and has its report issued: no
\* entry of the batch is passed over.
C18_EveryCommandReported ==
    \A t \in Ticks : \A i \in 1..MaxBatch :
        (poll[t].fetched /\ i \in DOMAIN poll[t].commands)
            ~> (/\ \E a \in DOMAIN poll[t].executed : poll[t].executed[a] = i
                /\ \E a \in DOMAIN poll[t].reported : poll[t].reported[a] = i)

C18_Witness ==
    \E t \in Ticks :
        /\ poll[t].exit = "completed"
        /\ Len(poll[t].commands) = MaxBatch
        /\ poll[t].commands[1].command_type = "self_destruct"
        /\ Len(poll[t].executed) = MaxBatch
        /\ Len(poll[t].reported) = MaxBatch

\* C19: each entry of a fetched list is executed at most once by the poll
\* that fetched it: the executions of a poll are of entries of its list and
\* no entry occurs twice among them.
C19_ExecutedAtMostOnce ==
    \A t \in Ticks :
        /\ Len(poll[t].executed) <= Len(poll[t].commands)
        /\ \A a \in DOMAIN poll[t].executed :
              /\ poll[t].executed[a] \in DOMAIN poll[t].commands
              /\ \A b \in DOMAIN poll[t].executed :
                    poll[t].executed[a] = poll[t].executed[b] => a = b

C19_Witness ==
    \E t \in Ticks :
        /\ poll[t].pc = "done"
        /\ poll[t].report_failed
        /\ Len(poll[t].commands) = 2
        /\ poll[t].commands[1].command_type = poll[t].commands[2].command_type
        /\ poll[t].executed = <<1, 2>>

Count(seq, x) == Len(SelectSeq(seq, LAMBDA y : y = x))

\* C20: no record of executed command ids is kept: when two polls are handed
\* a command with the same id, each poll that runs through its list has
\* executed it once and reported it once, also when the second poll fetched
\* it before the first had its result posted.
C20_SameIdOncePerPoll ==
    \A t, u \in Ticks :
        \A i \in DOMAIN poll[t].commands, j \in DOMAIN poll[u].commands :
            (/\ t # u
             /\ poll[t].commands[i].id = poll[u].commands[j].id
             /\ poll[t].exit = "completed") =>
                /\ Count(poll[t].executed, i) = 1
                /\ Count(poll[t].reported, i) = 1

C20_Witness ==
    /\ poll[1].pc = "reporting"
    /\ poll[2].pc = "reporting"
    /\ Current(poll[1]).id = Current(poll[2]).id
    /\ Count(poll[1].executed, poll[1].k) = 1
    /\ Count(poll[2].executed, poll[2].k) = 1

\* The keys a probe can put into the mapping.
ProbeKeys(p) ==
    UNION { DOMAIN o.metrics : o \in ProbeOutcomes(p, collect.states) }

\* The probe raised, or it logged a failure of its own.
ProbeFailed(p) ==
    \/ p \in collect.raised
    \/ \E w \in collect.warnings : w[2] = p /\ w # LowWarning

BackupRequestFailed ==
    \E i \in DOMAIN collect.calls :
        /\ collect.calls[i].req = BackupsListCall
        /\ collect.calls[i].outcome \in {"status", "error"}

NeedsToken == {"trigger_backup", "get_backup_info", "update_core"}

\* C22: while the sidecar token is absent no request goes to the sidecar:
\* the backup probe returns its defaults, get-logs makes no request but the
\* read of a local file, and trigger-backup, get-backup-info and
\* trigger-update return a failure without any call.
C22_NoSidecarWithoutToken ==
    ~supervisor_token =>
        \A t \in Ticks :
            /\ Requests(poll[t].exec.calls) \cap SidecarCalls = {}
            /\ Requests(report[t].calls) \cap SidecarCalls = {}
            /\ (poll[t].pc = "reporting"
                /\ Current(poll[t]).command_type \in NeedsToken) =>
                  /\ ~poll[t].exec.result.success
                  /\ poll[t].exec.calls = <<>>
            /\ (poll[t].pc = "reporting"
                /\ Current(poll[t]).command_type = "get_logs") =>
                  \A i \in DOMAIN poll[t].exec.calls :
                      poll[t].exec.calls[i].req.op = "open"
            /\ report[t].pc = "posting" =>
                  \A k \in DOMAIN BackupDefaults :
                      /\ k \in DOMAIN report[t].payload[1].metrics
                      /\ report[t].payload[1].metrics[k] = BackupDefaults[k]

C22_Witness ==
    /\ ~supervisor_token
    /\ poll[1].pc = "reporting"
    /\ Current(poll[1]).command_type = "trigger_backup"
    /\ poll[1].exec.calls = <<>>
    /\ ~poll[1].exec.result.success
    /\ report[1].pc = "posting"
    /\ report[1].payload[1].metrics["backup_count"] = 0
    /\ report[1].calls = <<>>

C27_NoUuidNoRequest ==
    ~core_uuid =>
        \A t \in Ticks :
            /\ poll[t].http = <<>>
            /\ poll[t].executed = <<>>
            /\ ~poll[t].fetched
            /\ report[t].http = <<>>
            /\ report[t].posts = 0
            /\ report[t].payload = <<>>

C27_Witness ==
    /\ ~core_uuid
    /\ poll[1].pc = "done"
    /\ poll[1].exit = "no_uuid"
    /\ report[1].pc = "done"
    /\ report[1].exit = "no_uuid"
    /\ report[1].probes = ProbeOrder

DetailsKey == "_unavailable_entity_details"

\* C30: when an entity is unavailable, the list of unavailable-entity
\* details is at the root of the payload of the metrics request, next to
\* instance_id, timestamp and metrics, and not inside the metrics mapping.
C30_DetailsAtPayloadRoot ==
    \A t \in Ticks :
        (/\ report[t].pc = "posting"
         /\ "unavailable_entities" \in DOMAIN report[t].payload[1].metrics
         /\ report[t].payload[1].metrics["unavailable_entities"] > 0) =>
            /\ DetailsKey \in DOMAIN report[t].payload[1]
            /\ DetailsKey \notin DOMAIN report[t].payload[1].metrics

\* C28: the poller is not gated on the state of the host: with the uuid
\* present, a poller tick sends its fetch in whatever state the host is in,
\* and goes on to execute and report what it fetched, restart and update
\* commands included.
C28_PollerNotGated ==
    \A t \in Ticks :
        (poll[t].pc # "idle" /\ core_uuid) =>
            /\ poll[t].state \in {HostStates[i] : i \in DOMAIN HostStates}
            /\ poll[t].exit # "skipped"
            /\ Len(poll[t].http) >= 1
            /\ poll[t].http[1].call = "fetch"

C28_Witness ==
    /\ poll[1].state = "STARTING"
    /\ poll[1].pc = "reporting"
    /\ poll[1].commands[1].command_type = "restart_homeassistant"
    /\ poll[1].exec.result.success
    /\ poll[1].payload.status = "success"
    /\ Len(poll[1].http) = 2

\* C29: trigger-update makes the pre-update backup unless backup_before is
\* given and false: otherwise the backup request is the first call made and
\* the update endpoint is called only after it succeeded; and in every run a
\* backup request that is made precedes the update request.
C29_BackupUnlessFalse ==
    \A t \in Ticks :
        (/\ poll[t].pc = "reporting"
         /\ Current(poll[t]).command_type = "update_core"
         /\ supervisor_token) =>
            LET params == ParamsOf(Current(poll[t]))
                calls == poll[t].exec.calls
            IN  /\ DictGet(params, "backup_before", PyTrue) # PyFalse =>
                      /\ calls # <<>>
                      /\ calls[1].req = BackupCall
                      /\ UpdateCall \in Requests(calls) => calls[1].outcome = "ok"
                /\ \A i, j \in DOMAIN calls :
                      (calls[i].req = BackupCall /\ calls[j].req = UpdateCall) => i < j

\* The tick t of the poller starts in this step.
PollStarts(t) == poll[t].pc = "idle" /\ poll'[t].pc # "idle"

\* The tick t of the reporter starts in this step.
ReportStarts(t) == report[t].pc = "idle" /\ report'[t].pc # "idle"

\* The entry is loaded and no change of its data waits for a reload.
ReloadCompleted == entry.state = "loaded" /\ ~entry.reload

\* C24: across every interleaving of ticks with a reconfiguration (unload,
\* then setup), all requests of one tick are made with the URL and the key
\* of one version of the configuration, and a tick that starts after the
\* reload has completed makes them with the new one.
C24_OneConfigPerTick ==
    /\ [](\A t \in Ticks :
            /\ \A i \in DOMAIN poll[t].http :
                  poll[t].http[i].config = poll[t].config
            /\ \A i \in DOMAIN report[t].http :
                  report[t].http[i].config = report[t].config)
    /\ [][\A t \in Ticks :
            /\ (PollStarts(t) /\ ReloadCompleted) =>
                  poll'[t].config = <<RequestConfig(entry.data[1])>>
            /\ (ReportStarts(t) /\ ReloadCompleted) =>
                  report'[t].config = <<RequestConfig(entry.data[1])>>]_vars

C24_Witness ==
    /\ entry.state = "loaded"
    /\ ~entry.reload
    /\ entry.stored = <<OtherConfig>>
    /\ poll[1].pc = "reporting"
    /\ Len(poll[1].http) = 2
    /\ poll[1].http[2].config = <<RequestConfig(DefaultConfig)>>
    /\ poll[2].pc = "fetching"
    /\ poll[2].http[1].config = <<RequestConfig(OtherConfig)>>

\* The URL or the key of the entry's data differs between the two.
ConnectionDiffers(old, new) ==
    \/ old = <<>>
    \/ old[1].cloud_url # new[1].cloud_url
    \/ old[1].api_key # new[1].api_key

\* C25: the flow stores a new URL or key (it creates the entry in the user
\* step, it updates it in the options step) only after GET {url}/health on
\* that URL answered 200 with status "healthy"; when the validation fails
\* the stored configuration is unchanged and the form is shown again with
\* the error cannot_connect.
C25_StoredOnlyAfterHealthy ==
    [][/\ (entry'.data # entry.data /\ ConnectionDiffers(entry.data, entry'.data)) =>
            /\ flow.pc = "validating"
            /\ flow'.health = <<[url |-> entry'.data[1].cloud_url,
                                 outcome |-> "healthy"]>>
       /\ (/\ flow.pc = "validating"
           /\ flow'.pc # "validating"
           /\ flow'.health[1].outcome # "healthy") =>
            /\ entry' = entry
            /\ flow'.pc = "form"
            /\ flow'.errors = "cannot_connect"]_vars

C25_Witness ==
    /\ flow.step = "init"
    /\ flow.submits = 2
    /\ flow.pc = "closed"
    /\ flow.health = <<[url |-> Url("https://b.example", 0), outcome |-> "healthy"]>>
    /\ entry.data[1].cloud_url = Url("https://b.example", 0)
    /\ entry.data[1].api_key = "key-b"
    /\ entry.reload

\* C26: after every sequence of setups, reloads and unloads at most one
\* subscription of the reporter and one of the poller are active; from the
\* unload on none is active until the entry is set up again, no tick starts,
\* and the stored mapping is gone once the platforms are unloaded.
C26_AtMostOneSubscription ==
    /\ [](/\ entry.unsub <= 1
          /\ entry.unsub_commands <= 1
          /\ entry.state # "loaded" =>
                (entry.unsub = 0 /\ entry.unsub_commands = 0)
          /\ entry.state = "not_loaded" => entry.stored = <<>>)
    /\ [][\A t \in Ticks :
            (PollStarts(t) \/ ReportStarts(t)) => entry.state = "loaded"]_vars

C26_Witness ==
    /\ entry.state = "not_loaded"
    /\ entry.unloads = 2
    /\ entry.stored = <<>>
    /\ entry.unsub = 0
    /\ entry.unsub_commands = 0
    /\ poll[1].pc = "executing"
    /\ report[1].pc = "posting"

====
